---------------------------- MODULE Spec2Model ----------------------------
(***************************************************************************)
(* Customer-review pipeline: 01_data_cleaning.py (clean_reviews),          *)
(* 02_sentiment_analysis.py (analyze_sentiment) and 03_ai_insights.py      *)
(* (run_ai_analysis_free and its helpers).                                 *)
(*                                                                         *)
(* A DataFrame is [columns, rows]: rows is a sequence of functions from    *)
(* column name to value, and a missing value (NaN) is a column name absent *)
(* from the row's DOMAIN.  Review texts are strings, handled character by  *)
(* character.  A file holds the table (or report) written to it;           *)
(* read_csv/to_csv carry the modelled values (strings longer than 20       *)
(* characters, integers) unchanged.                                        *)
(***************************************************************************)
EXTENDS Integers, Sequences, FiniteSets, TLC

VARIABLES
    fs,           \* path -> file content
    stage,        \* the function that is running
    pc,           \* its position
    df,           \* its working DataFrame (or the argument of a direct call)
    sample_size,  \* clean_reviews' sample_size: {} is None, {n} is n
    raised,       \* the exception the run aborted with, or NoError
    written,      \* the paths written during the current run
    ret           \* the value a function returned

vars == <<fs, stage, pc, df, sample_size, raised, written, ret>>

(***************************************************************************)
(* Bounds                                                                  *)
(***************************************************************************)
MaxRecords == 3

(***************************************************************************)
(* Strings                                                                 *)
(***************************************************************************)
UpperLetters == "ABCDEFGHIJKLMNOPQRSTUVWXYZ"
LowerLetters == "abcdefghijklmnopqrstuvwxyz"

CharAt(s, i) == SubSeq(s, i, i)

IsUpperChar(c) == \E i \in 1..Len(UpperLetters) : CharAt(UpperLetters, i) = c

\* str.lower() on one character
LowerChar(c) ==
    IF IsUpperChar(c)
    THEN CharAt(LowerLetters, CHOOSE i \in 1..Len(UpperLetters) : CharAt(UpperLetters, i) = c)
    ELSE c

RECURSIVE Lower(_)
\* str.lower()
Lower(s) == IF s = "" THEN "" ELSE LowerChar(Head(s)) \o Lower(Tail(s))

RECURSIVE LowerAll(_)
\* str.lower() on each text of a sequence
LowerAll(texts) ==
    IF texts = <<>> THEN <<>> ELSE <<Lower(Head(texts))>> \o LowerAll(Tail(texts))

\* the characters str.strip() and str.split() treat as whitespace
IsSpace(c) == c \in {" ", "\t", "\n", "\r"}

RECURSIVE LStrip(_)
LStrip(s) == IF s # "" /\ IsSpace(Head(s)) THEN LStrip(Tail(s)) ELSE s

RECURSIVE RStrip(_)
RStrip(s) ==
    IF s # "" /\ IsSpace(CharAt(s, Len(s))) THEN RStrip(SubSeq(s, 1, Len(s) - 1)) ELSE s

\* str.strip()
Strip(s) == RStrip(LStrip(s))

\* `kw in s`
Contains(kw, s) ==
    \E i \in 1..(Len(s) - Len(kw) + 1) : SubSeq(s, i, i + Len(kw) - 1) = kw

\* len(s.split()): the number of maximal runs of non-whitespace
WordCount(s) ==
    Cardinality({i \in 1..Len(s) :
        /\ ~IsSpace(CharAt(s, i))
        /\ (i = 1 \/ IsSpace(CharAt(s, i - 1)))})

(***************************************************************************)
(* DataFrames                                                              *)
(***************************************************************************)
NoError == "none"

Absent == [kind |-> "absent"]

Table(columns, rows) == [kind |-> "table", columns |-> columns, rows |-> rows]

\* df[c] = value, row by row
WithCol(row, c, v) == [k \in DOMAIN row \cup {c} |-> IF k = c THEN v ELSE row[k]]

RECURSIVE Keep(_, _, _)
\* the rows at the positions in idx, in order
Keep(rows, idx, i) ==
    IF i > Len(rows) THEN <<>>
    ELSE (IF i \in idx THEN <<rows[i]>> ELSE <<>>) \o Keep(rows, idx, i + 1)

(***************************************************************************)
(* 01_data_cleaning.py                                                     *)
(***************************************************************************)
RawPath == "data/reviews.csv"
CleanPath == "data/reviews_clean.csv"

MinLength == 20

\* np.random.RandomState(42).permutation(n), 1-based: the order in which
\* df.sample(n=k, random_state=42) draws the rows of an n-row frame
Perm42(n) ==
    CASE n = 0 -> <<>>
      [] n = 1 -> <<1>>
      [] n = 2 -> <<2, 1>>
      [] n = 3 -> <<1, 2, 3>>
      [] n = 4 -> <<2, 4, 1, 3>>
      [] n = 5 -> <<2, 5, 3, 1, 4>>
      [] n = 6 -> <<1, 2, 6, 3, 5, 4>>

\* `if sample_size and sample_size < len(df)`: None and 0 are falsy
SampleCond(ss, n) == ss # {} /\ ss # {0} /\ (\A k \in ss : k < n)

\* df.sample(n=k, random_state=42)
SampleRows(rows, k) == [i \in 1..k |-> rows[Perm42(Len(rows))[i]]]

\* lines 25-29
SampleStep(rows, ss) ==
    IF SampleCond(ss, Len(rows))
    THEN SampleRows(rows, CHOOSE k \in ss : TRUE)
    ELSE rows

\* line 35: df_sample.dropna(subset=['Text', 'Score'])
DropNa(rows) ==
    Keep(rows, {i \in 1..Len(rows) : {"Text", "Score"} \subseteq DOMAIN rows[i]}, 1)

\* the first-kept rule with the last occurrence kept
DropDuplicatesKeepLast(rows) ==
    Keep(rows, {i \in 1..Len(rows) :
                   \A j \in (i + 1)..Len(rows) : rows[j].Text # rows[i].Text}, 1)

\* line 40: df_clean.drop_duplicates(subset=['Text']), keep='first'
DropDuplicates(rows) ==
    Keep(rows, {i \in 1..Len(rows) : \A j \in 1..(i - 1) : rows[j].Text # rows[i].Text}, 1)

\* line 44
LowerStep(rows) == [i \in 1..Len(rows) |-> WithCol(rows[i], "Text", Lower(rows[i].Text))]

\* line 45
StripStep(rows) == [i \in 1..Len(rows) |-> WithCol(rows[i], "Text", Strip(rows[i].Text))]

\* the filter with >= in place of >
FilterShortAtLeast(rows) ==
    Keep(rows, {i \in 1..Len(rows) : Len(rows[i].Text) >= MinLength}, 1)

\* line 50: df_clean[df_clean['Text'].str.len() > 20]
FilterShort(rows) ==
    Keep(rows, {i \in 1..Len(rows) : Len(rows[i].Text) > MinLength}, 1)

\* lines 62-63
Features(rows) ==
    [i \in 1..Len(rows) |->
        WithCol(WithCol(rows[i], "review_length", Len(rows[i].Text)),
                "word_count", WordCount(rows[i].Text))]

\* the raw reviews the inputs are drawn from
RawKinds ==
    { [Text |-> "Package arrived late and broken", Score |-> 1],
      [Text |-> "  PACKAGE arrived late and broken ", Score |-> 2],
      [Text |-> "The price is too big ", Score |-> 3],
      [Text |-> "The price is too high", Score |-> 4],
      [Score |-> 5],
      [Text |-> "Poor taste, stale and bland" ] }

RECURSIVE SeqsUpTo(_, _)
SeqsUpTo(S, n) ==
    IF n = 0 THEN {<<>>}
    ELSE LET shorter == SeqsUpTo(S, n - 1)
         IN  shorter \cup {Append(s, x) : s \in {t \in shorter : Len(t) = n - 1}, x \in S}

\* the Id column numbers the rows of the input file
WithIds(rows) == [i \in 1..Len(rows) |-> WithCol(rows[i], "Id", i)]

RawColumns == {"Id", "Text", "Score"}

RawTables == {Table(RawColumns, WithIds(s)) : s \in SeqsUpTo(RawKinds, MaxRecords)}

SampleSizes == {{}} \cup {{k} : k \in 0..(MaxRecords + 1)}

CleanPaths == {RawPath, CleanPath}

InitClean ==
    /\ \E t \in RawTables : fs = [p \in CleanPaths |-> IF p = RawPath THEN t ELSE Absent]
    /\ sample_size \in SampleSizes
    /\ stage = "clean_reviews"
    /\ pc = "load"
    /\ df = Table({}, <<>>)
    /\ raised = NoError
    /\ written = {}
    /\ ret = Absent

Goto(from, to) == pc = from /\ pc' = to

\* line 21
CleanLoad ==
    /\ stage = "clean_reviews" /\ Goto("load", "sample")
    /\ df' = fs[RawPath]
    /\ UNCHANGED <<fs, stage, sample_size, raised, written, ret>>

\* lines 25-29
CleanSample ==
    /\ stage = "clean_reviews" /\ Goto("sample", "dropna")
    /\ df' = [df EXCEPT !.rows = SampleStep(df.rows, sample_size)]
    /\ UNCHANGED <<fs, stage, sample_size, raised, written, ret>>

\* line 35
CleanDropNa ==
    /\ stage = "clean_reviews" /\ Goto("dropna", "drop_duplicates")
    /\ df' = [df EXCEPT !.rows = DropNa(df.rows)]
    /\ UNCHANGED <<fs, stage, sample_size, raised, written, ret>>

\* line 40
CleanDropDuplicates ==
    /\ stage = "clean_reviews" /\ Goto("drop_duplicates", "lower")
    /\ df' = [df EXCEPT !.rows = DropDuplicates(df.rows)]
    /\ UNCHANGED <<fs, stage, sample_size, raised, written, ret>>

\* line 44
CleanLower ==
    /\ stage = "clean_reviews" /\ Goto("lower", "strip")
    /\ df' = [df EXCEPT !.rows = LowerStep(df.rows)]
    /\ UNCHANGED <<fs, stage, sample_size, raised, written, ret>>

\* line 45
CleanStrip ==
    /\ stage = "clean_reviews" /\ Goto("strip", "filter")
    /\ df' = [df EXCEPT !.rows = StripStep(df.rows)]
    /\ UNCHANGED <<fs, stage, sample_size, raised, written, ret>>

\* line 50
CleanFilter ==
    /\ stage = "clean_reviews" /\ Goto("filter", "features")
    /\ df' = [df EXCEPT !.rows = FilterShort(df.rows)]
    /\ UNCHANGED <<fs, stage, sample_size, raised, written, ret>>

\* lines 54-63: the inputs carry no Time column, so only lines 62-63 act
CleanFeatures ==
    /\ stage = "clean_reviews" /\ Goto("features", "save")
    /\ df' = [df EXCEPT !.columns = @ \cup {"review_length", "word_count"},
                        !.rows = Features(df.rows)]
    /\ UNCHANGED <<fs, stage, sample_size, raised, written, ret>>

\* lines 71-74
CleanSave ==
    /\ stage = "clean_reviews" /\ Goto("save", "done")
    /\ fs' = [fs EXCEPT ![CleanPath] = df]
    /\ written' = written \cup {CleanPath}
    /\ ret' = df
    /\ UNCHANGED <<stage, df, sample_size, raised>>

\* line 71 when output_file cannot be written
CleanSaveFails ==
    /\ stage = "clean_reviews" /\ Goto("save", "aborted")
    /\ raised' = "OSError"
    /\ UNCHANGED <<fs, stage, df, sample_size, written, ret>>

NextClean ==
    \/ CleanLoad
    \/ CleanSample
    \/ CleanDropNa
    \/ CleanDropDuplicates
    \/ CleanLower
    \/ CleanStrip
    \/ CleanFilter
    \/ CleanFeatures
    \/ CleanSave
    \/ CleanSaveFails

SpecClean == InitClean /\ [][NextClean]_vars

\* raw reviews that repeat one Text, with different scores and once without
\* a Score, next to a review with another Text
DuplicateKinds ==
    { [Text |-> "Package arrived late and broken", Score |-> 1],
      [Text |-> "Package arrived late and broken", Score |-> 2],
      [Text |-> "Package arrived late and broken"],
      [Text |-> "The price is too high", Score |-> 4] }

\* input files long enough for a draw that is smaller than the file and
\* takes several rows out of their input order
DuplicateTables ==
    {Table(RawColumns, WithIds(s)) : s \in SeqsUpTo(DuplicateKinds, MaxRecords + 1)}

InitDuplicates ==
    /\ \E t \in DuplicateTables : fs = [p \in CleanPaths |-> IF p = RawPath THEN t ELSE Absent]
    /\ sample_size \in SampleSizes
    /\ stage = "clean_reviews"
    /\ pc = "load"
    /\ df = Table({}, <<>>)
    /\ raised = NoError
    /\ written = {}
    /\ ret = Absent

SpecDuplicates == InitDuplicates /\ [][NextClean]_vars


(***************************************************************************)
(* Arithmetic and sorting helpers                                          *)
(***************************************************************************)
\* format(n/d, '.0f') for n >= 0, d > 0: the nearest integer, halves to even
RoundHalfEven(n, d) ==
    LET q == n \div d
        r == n % d
    IN  IF 2 * r < d THEN q
        ELSE IF 2 * r > d THEN q + 1
        ELSE IF q % 2 = 0 THEN q ELSE q + 1

\* a / b > c / d for positive b, d
FracGreater(a, b) == a.num * b.den > b.num * a.den

RECURSIVE InsertDesc(_, _)
\* x placed after every item whose key is >= its own
InsertDesc(sorted, x) ==
    IF sorted = <<>> THEN <<x>>
    ELSE IF FracGreater(x.key, Head(sorted).key) THEN <<x>> \o sorted
    ELSE <<Head(sorted)>> \o InsertDesc(Tail(sorted), x)

RECURSIVE SortDesc(_)
\* sorted(items, key=..., reverse=True): descending, equal keys in their
\* original order
SortDesc(items) ==
    IF items = <<>> THEN <<>>
    ELSE InsertDesc(SortDesc(SubSeq(items, 1, Len(items) - 1)), items[Len(items)])

\* seq[:n]
Take(seq, n) == SubSeq(seq, 1, IF Len(seq) < n THEN Len(seq) ELSE n)

RECURSIVE SumSeq(_)
SumSeq(seq) == IF seq = <<>> THEN 0 ELSE Head(seq) + SumSeq(Tail(seq))

Raise(e) == [kind |-> "error", error |-> e]

(***************************************************************************)
(* 02_sentiment_analysis.py                                                *)
(***************************************************************************)
\* scores are in units of 0.0001: 0.05 is 500
PosThreshold == 500
NegThreshold == -500

\* the thresholds taken as strict
categorize_sentiment_strict(score) ==
    IF score > PosThreshold THEN "Positive"
    ELSE IF score < NegThreshold THEN "Negative"
    ELSE "Neutral"

\* lines 33-40
categorize_sentiment(score) ==
    IF score >= PosThreshold THEN "Positive"
    ELSE IF score <= NegThreshold THEN "Negative"
    ELSE "Neutral"

\* line 62: df['sentiment_category'] = df['vader_compound'].apply(categorize_sentiment)
SentimentCategories(rows) ==
    [i \in 1..Len(rows) |->
        WithCol(rows[i], "sentiment_category", categorize_sentiment(rows[i].vader_compound))]

(***************************************************************************)
(* 03_ai_insights.py                                                       *)
(***************************************************************************)
\* lines 17-24, in the dict's order
topic_keywords ==
    << [topic |-> "Product Quality",
        keywords |-> <<"quality", "defective", "broke", "broken", "damaged", "poor",
                       "cheap", "terrible", "awful", "bad">>],
       [topic |-> "Shipping/Delivery",
        keywords |-> <<"shipping", "delivery", "arrived", "package", "late", "delayed",
                       "never received", "lost", "weeks">>],
       [topic |-> "Customer Service",
        keywords |-> <<"customer service", "support", "refund", "return", "response",
                       "contact", "help", "customer">>],
       [topic |-> "Price/Value",
        keywords |-> <<"price", "expensive", "overpriced", "cost", "value", "money",
                       "worth", "waste">>],
       [topic |-> "Packaging",
        keywords |-> <<"packaging", "box", "wrapped", "container", "sealed", "package",
                       "crushed">>],
       [topic |-> "Taste/Flavor",
        keywords |-> <<"taste", "flavor", "bland", "bitter", "sweet", "salty",
                       "disgusting", "delicious", "stale">>] >>

\* any(keyword in text for keyword in keywords)
AnyKeyword(keywords, text) == \E i \in 1..Len(keywords) : Contains(keywords[i], text)

\* lines 27-33
CountTopics(text_lower) ==
    [t \in 1..Len(topic_keywords) |->
        Cardinality({j \in 1..Len(text_lower) :
            AnyKeyword(topic_keywords[t].keywords, text_lower[j])})]

\* lines 27-33, with text.lower() of line 30
TopicCounts(texts) == CountTopics(LowerAll(texts))

\* count / total * 100
Percent(count, total) ==
    IF total = 0 THEN [ok |-> FALSE, num |-> 0, den |-> 1]
    ELSE [ok |-> TRUE, num |-> count * 100, den |-> total]

\* the comprehension without its filter
TopicFilterNone(count) == TRUE

\* line 40: the comprehension's filter, evaluated before its value
TopicFilter(count) == count > 0

RECURSIVE TopicPercentagesFrom(_, _, _)
TopicPercentagesFrom(counts, total, t) ==
    IF t > Len(topic_keywords) THEN <<>>
    ELSE (IF TopicFilter(counts[t])
          THEN <<[topic |-> topic_keywords[t].topic, key |-> Percent(counts[t], total)]>>
          ELSE <<>>)
         \o TopicPercentagesFrom(counts, total, t + 1)

\* lines 36-41
TopicPercentages(counts, total) == TopicPercentagesFrom(counts, total, 1)

RECURSIVE Reverse(_)
Reverse(seq) == IF seq = <<>> THEN <<>> ELSE Reverse(Tail(seq)) \o <<Head(seq)>>

\* the sort without reverse=True
SortedTopicsAscending(percentages) == Reverse(SortDesc(percentages))

\* line 44
SortedTopics(percentages) == SortDesc(percentages)

\* line 48: sorted_topics[:5]
TopTopics(sorted) == Take(sorted, 5)

\* lines 47-56: one entry per TOPIC block; prevalence is f"{pct:.1f}" in tenths
FormatTopics(top) ==
    [i \in 1..Len(top) |->
        [n |-> i,
         topic |-> top[i].topic,
         description |-> "Predominantly negative mentions related to " \o Lower(top[i].topic),
         sentiment |-> "Negative",
         prevalence |-> RoundHalfEven(top[i].key.num * 10, top[i].key.den)]]

\* lines 11-56
extract_topics_rule_based(df_negative) ==
    IF "Text" \notin df_negative.columns THEN Raise("KeyError")
    ELSE
    LET texts == [j \in 1..Len(df_negative.rows) |-> df_negative.rows[j].Text]
        topic_percentages == TopicPercentages(TopicCounts(texts), Len(df_negative.rows))
    IN  IF \E i \in 1..Len(topic_percentages) : ~topic_percentages[i].key.ok
        THEN Raise("ZeroDivisionError")
        ELSE [kind |-> "report",
              entries |-> FormatTopics(TopTopics(SortedTopics(topic_percentages)))]

\* the keyword lists of lines 66-76
ShippingWords == <<"shipping", "delivery", "arrived", "package", "late", "delayed", "never received">>
ServiceWords == <<"customer service", "support", "refund", "return", "customer">>
QualityWords == <<"quality", "defective", "broke", "broken", "damaged", "poor">>
TasteWords == <<"taste", "flavor", "bland", "bitter", "delicious", "disgusting", "stale">>
\* the price list with a keyword the report files under Product Quality
PriceWordsWithCheap == <<"price", "expensive", "overpriced", "cost", "waste", "money", "cheap">>
PriceWords == <<"price", "expensive", "overpriced", "cost", "waste", "money">>
PackagingWords == <<"packaging", "box", "wrapped", "crushed">>

\* the chain with the quality test moved to the front
CategoryChainQualityFirst(text_lower) ==
    IF AnyKeyword(QualityWords, text_lower) THEN "Product Quality"
    ELSE IF AnyKeyword(ShippingWords, text_lower) THEN "Shipping/Delivery"
    ELSE IF AnyKeyword(ServiceWords, text_lower) THEN "Customer Service"
    ELSE IF AnyKeyword(TasteWords, text_lower) THEN "Taste/Flavor"
    ELSE IF AnyKeyword(PriceWords, text_lower) THEN "Price/Value"
    ELSE IF AnyKeyword(PackagingWords, text_lower) THEN "Packaging"
    ELSE "Other"

\* lines 66-79
CategoryChain(text_lower) ==
    IF AnyKeyword(ShippingWords, text_lower) THEN "Shipping/Delivery"
    ELSE IF AnyKeyword(ServiceWords, text_lower) THEN "Customer Service"
    ELSE IF AnyKeyword(QualityWords, text_lower) THEN "Product Quality"
    ELSE IF AnyKeyword(TasteWords, text_lower) THEN "Taste/Flavor"
    ELSE IF AnyKeyword(PriceWords, text_lower) THEN "Price/Value"
    ELSE IF AnyKeyword(PackagingWords, text_lower) THEN "Packaging"
    ELSE "Other"

\* lines 58-79
categorize_review_rule_based(review_text) == CategoryChain(Lower(review_text))

RECURSIVE FirstSeen(_, _)
\* the distinct values of a column, in order of first appearance
FirstSeen(values, seen) ==
    IF values = <<>> THEN <<>>
    ELSE IF Head(values) \in seen THEN FirstSeen(Tail(values), seen)
    ELSE <<Head(values)>> \o FirstSeen(Tail(values), seen \cup {Head(values)})

\* Series.value_counts(): counts in descending order, equal counts in order
\* of first appearance
ValueCounts(values) ==
    LET distinct == FirstSeen(values, {})
    IN  SortDesc([i \in 1..Len(distinct) |->
            [value |-> distinct[i],
             key |-> [num |-> Cardinality({j \in 1..Len(values) : values[j] = distinct[i]}),
                      den |-> 1]]])

NegativeRows(rows) ==
    Keep(rows, {i \in 1..Len(rows) : rows[i].sentiment_category = "Negative"}, 1)

FallbackIssues == "product quality, shipping, and customer service"

\* the issues text of a frame that has no ai_category column yet
IssuesTextUncategorized(d) == [fallback |-> TRUE, items |-> <<>>]

\* lines 91-105
IssuesText(d) ==
    LET neg == NegativeRows(d.rows)
        top_issues == Take(ValueCounts([i \in 1..Len(neg) |-> neg[i].ai_category]), 3)
    IN  IF "ai_category" \in d.columns /\ Len(neg) > 0
        THEN [fallback |-> FALSE,
              items |-> [i \in 1..Len(top_issues) |->
                  [cat |-> top_issues[i].value,
                   pct |-> RoundHalfEven(top_issues[i].key.num * 100, Len(neg))]]]
        ELSE [fallback |-> TRUE, items |-> <<>>]

\* sentiment_dist.get(category, 0) * 100, as f"{...:.0f}"
SentimentPct(rows, category) ==
    LET count == Cardinality({i \in 1..Len(rows) : rows[i].sentiment_category = category})
    IN  IF count = 0 THEN 0 ELSE RoundHalfEven(count * 100, Len(rows))

\* df['Score'].mean() as f"{...:.2f}", in hundredths; nan for no rows
MeanScore(rows) ==
    IF Len(rows) = 0 THEN [nan |-> TRUE, hundredths |-> 0]
    ELSE [nan |-> FALSE,
          hundredths |-> RoundHalfEven(SumSeq([i \in 1..Len(rows) |-> rows[i].Score]) * 100,
                                       Len(rows))]

\* lines 81-120
generate_executive_summary_template(d) ==
    IF ~({"sentiment_category", "Score"} \subseteq d.columns) THEN Raise("KeyError")
    ELSE [kind |-> "summary",
          total_reviews |-> Len(d.rows),
          avg_rating |-> MeanScore(d.rows),
          pos_pct |-> SentimentPct(d.rows, "Positive"),
          neg_pct |-> SentimentPct(d.rows, "Negative"),
          neu_pct |-> SentimentPct(d.rows, "Neutral"),
          issues |-> IssuesText(d)]

(***************************************************************************)
(* Direct calls of the pure functions, on arguments drawn from bounded     *)
(* sets                                                                     *)
(***************************************************************************)
MaxWords == 2

\* vader's compound score is rounded to 4 decimals and lies in [-1, 1]
Compounds == -10000..10000

\* one scored record per compound score
ScoredTables == {Table({"vader_compound"}, <<[vader_compound |-> c]>>) : c \in Compounds}

Vocabulary ==
    {"SHIPPING", "late", "refund", "customer service", "broken", "poor", "taste",
     "price", "waste", "box", "crushed", "great", "package"}

RECURSIVE Phrases(_)
\* the texts of at most n words
Phrases(n) ==
    IF n = 0 THEN {""}
    ELSE LET shorter == Phrases(n - 1)
         IN  shorter \cup {IF p = "" THEN w ELSE p \o " " \o w : p \in shorter, w \in Vocabulary}

ReviewTexts == Phrases(MaxWords)

NegativeTexts ==
    {"poor taste, package crushed, no refund, waste of money",
     "package arrived late and broken",
     "the price is too high",
     "stale and bitter, tasted awful",
     "nothing special about this one",
     "Customer SUPPORT never answered"}

NegativeTables ==
    {Table({"Text", "sentiment_category"},
           [i \in 1..Len(s) |-> [Text |-> s[i], sentiment_category |-> "Negative"]])
        : s \in SeqsUpTo(NegativeTexts, MaxRecords)}

CategorizedKinds ==
    { [Score |-> 5, sentiment_category |-> "Positive", ai_category |-> "Other"],
      [Score |-> 4, sentiment_category |-> "Positive", ai_category |-> "Taste/Flavor"],
      [Score |-> 3, sentiment_category |-> "Neutral", ai_category |-> "Other"],
      [Score |-> 1, sentiment_category |-> "Negative", ai_category |-> "Shipping/Delivery"],
      [Score |-> 2, sentiment_category |-> "Negative", ai_category |-> "Price/Value"],
      [Score |-> 1, sentiment_category |-> "Negative", ai_category |-> "Product Quality"] }

WithoutCol(row, c) == [k \in DOMAIN row \ {c} |-> row[k]]

\* a table with column c removed
DropColumn(t, c) ==
    Table(t.columns \ {c}, [i \in 1..Len(t.rows) |-> WithoutCol(t.rows[i], c)])

SummaryTables ==
    LET full == {Table({"Score", "sentiment_category", "ai_category"}, s)
                    : s \in SeqsUpTo(CategorizedKinds, MaxRecords)}
    IN  full \cup {DropColumn(t, "ai_category") : t \in full}

InitCalls ==
    /\ \/ stage = "categorize_sentiment" /\ df \in ScoredTables
       \/ stage = "categorize_review_rule_based" /\ df \in ReviewTexts
       \/ stage = "extract_topics_rule_based" /\ df \in NegativeTables
       \/ stage = "generate_executive_summary_template" /\ df \in SummaryTables
    /\ pc = "call"
    /\ ret = Absent
    /\ fs = <<>>
    /\ sample_size = {}
    /\ raised = NoError
    /\ written = {}

Return(value) ==
    /\ Goto("call", "return")
    /\ ret' = value
    /\ raised' = IF value.kind = "error" THEN value.error ELSE NoError
    /\ UNCHANGED <<fs, stage, df, sample_size, written>>

CallCategorizeSentiment ==
    /\ stage = "categorize_sentiment"
    /\ Return(Table(df.columns \cup {"sentiment_category"}, SentimentCategories(df.rows)))

CallCategorizeReview ==
    /\ stage = "categorize_review_rule_based"
    /\ Return([kind |-> "label", label |-> categorize_review_rule_based(df)])

CallExtractTopics ==
    /\ stage = "extract_topics_rule_based"
    /\ Return(extract_topics_rule_based(df))

CallSummary ==
    /\ stage = "generate_executive_summary_template"
    /\ Return(generate_executive_summary_template(df))

NextCalls ==
    \/ CallCategorizeSentiment
    \/ CallCategorizeReview
    \/ CallExtractTopics
    \/ CallSummary

SpecCalls == InitCalls /\ [][NextCalls]_vars

(***************************************************************************)
(* The stages after the Cleaner, run one after the other as scripts:       *)
(* analyze_sentiment on the Cleaner's file, then run_ai_analysis_free on   *)
(* analyze_sentiment's file                                                *)
(***************************************************************************)
SentimentPath == "data/reviews_with_sentiment.csv"
StatsPath == "outputs/sentiment_stats.json"
TopicsPath == "outputs/topics_analysis.txt"
SummaryPath == "outputs/executive_summary.txt"
FinalPath == "data/reviews_final.csv"

StagePaths == {CleanPath, SentimentPath, StatsPath, TopicsPath, SummaryPath, FinalPath}

\* lines 10-74 of 01_data_cleaning.py, start to end
clean_reviews(t, ss) ==
    Table(t.columns \cup {"review_length", "word_count"},
          Features(FilterShort(StripStep(LowerStep(DropDuplicates(DropNa(
              SampleStep(t.rows, ss))))))))

\* what get_sentiment_scores (lines 14-31) may return for a text: the two
\* analyzers are libraries, so their scores are drawn from these dicts
\* (compound in units of 0.0001, the others in units of 0.001)
ScoreDicts ==
    { [vader_compound |-> -6249, vader_pos |-> 0, vader_neg |-> 412, vader_neu |-> 588,
       textblob_polarity |-> -400, textblob_subjectivity |-> 700],
      [vader_compound |-> 0, vader_pos |-> 0, vader_neg |-> 0, vader_neu |-> 1000,
       textblob_polarity |-> 0, textblob_subjectivity |-> 0],
      [vader_compound |-> 500, vader_pos |-> 130, vader_neg |-> 0, vader_neu |-> 870,
       textblob_polarity |-> 160, textblob_subjectivity |-> 540] }

TextsOf(rows) == {rows[i].Text : i \in 1..Len(rows)}

\* lines 54-59: the score dict of each row's Text, expanded into columns
WithScores(row, scores) == [k \in DOMAIN row \cup DOMAIN scores |->
                               IF k \in DOMAIN scores THEN scores[k] ELSE row[k]]

ScoreColumns ==
    {"vader_compound", "vader_pos", "vader_neg", "vader_neu", "textblob_polarity",
     "textblob_subjectivity"}

\* lines 54-62
ScoreRows(rows, lexicon) ==
    SentimentCategories([i \in 1..Len(rows) |-> WithScores(rows[i], lexicon[rows[i].Text])])

\* lines 68, 102-116: the statistics document (top_negative_words is not
\* modelled)
SentimentStats(rows) ==
    [kind |-> "stats",
     total_reviews |-> Len(rows),
     sentiment_distribution |->
         [c \in {rows[i].sentiment_category : i \in 1..Len(rows)} |->
             Cardinality({i \in 1..Len(rows) : rows[i].sentiment_category = c})],
     average_rating |-> MeanScore(rows)]

\* the rows of run_ai_analysis_free's frame after line 154, with only the
\* Negative rows kept
CategorizeNegativeOnly(rows) ==
    LET neg == NegativeRows(rows)
    IN  [i \in 1..Len(neg) |->
            WithCol(neg[i], "ai_category", categorize_review_rule_based(neg[i].Text))]

\* line 154: df['ai_category'] = df['Text'].apply(categorize_review_rule_based)
Categorize(rows) ==
    [i \in 1..Len(rows) |->
        WithCol(rows[i], "ai_category", categorize_review_rule_based(rows[i].Text))]

\* the files the Cleaner can leave for analyze_sentiment, and the same
\* files lacking a required column
CleanedTables ==
    LET cleaned == {clean_reviews(t, {}) : t \in RawTables}
    IN  cleaned \cup {DropColumn(t, c) : t \in cleaned, c \in {"Text", "Score"}}

Init ==
    /\ \E t \in CleanedTables \cup {Absent} :
           fs = [p \in StagePaths |-> IF p = CleanPath THEN t ELSE Absent]
    /\ stage = "analyze_sentiment"
    /\ pc = "load"
    /\ df = Table({}, <<>>)
    /\ sample_size = {}
    /\ raised = NoError
    /\ written = {}
    /\ ret = Absent

At(f, label) == stage = f /\ pc = label

Abort(e) ==
    /\ pc' = "aborted"
    /\ raised' = e
    /\ UNCHANGED <<fs, stage, df, sample_size, written, ret>>

Write(path, content) ==
    /\ fs' = [fs EXCEPT ![path] = content]
    /\ written' = written \cup {path}

\* line 48
SentLoad ==
    /\ At("analyze_sentiment", "load")
    /\ fs[CleanPath] # Absent
    /\ pc' = "score"
    /\ df' = fs[CleanPath]
    /\ UNCHANGED <<fs, stage, sample_size, raised, written, ret>>

\* line 48, the input file missing
SentLoadFails ==
    /\ At("analyze_sentiment", "load")
    /\ fs[CleanPath] = Absent
    /\ Abort("FileNotFoundError")

\* lines 54-62
SentScore ==
    /\ At("analyze_sentiment", "score")
    /\ "Text" \in df.columns
    /\ df.rows # <<>>
    /\ \E lexicon \in [TextsOf(df.rows) -> ScoreDicts] :
           df' = Table(df.columns \cup ScoreColumns \cup {"sentiment_category"},
                       ScoreRows(df.rows, lexicon))
    /\ pc' = "stats"
    /\ UNCHANGED <<fs, stage, sample_size, raised, written, ret>>

\* line 54 without a Text column; line 62 on a frame without rows, where
\* lines 57-59 add no score column
SentScoreFails ==
    /\ At("analyze_sentiment", "score")
    /\ "Text" \notin df.columns \/ df.rows = <<>>
    /\ Abort("KeyError")

\* lines 68-119
SentStats ==
    /\ At("analyze_sentiment", "stats")
    /\ "Score" \in df.columns
    /\ Write(StatsPath, SentimentStats(df.rows))
    /\ pc' = "save"
    /\ UNCHANGED <<stage, df, sample_size, raised, ret>>

\* line 74 without a Score column
SentStatsKeyError ==
    /\ At("analyze_sentiment", "stats")
    /\ "Score" \notin df.columns
    /\ Abort("KeyError")

\* line 118, the statistics file not writable
SentStatsWriteFails ==
    /\ At("analyze_sentiment", "stats")
    /\ "Score" \in df.columns
    /\ Abort("OSError")

\* lines 124-127
SentSave ==
    /\ At("analyze_sentiment", "save")
    /\ Write(SentimentPath, df)
    /\ pc' = "done"
    /\ ret' = df
    /\ UNCHANGED <<stage, df, sample_size, raised>>

\* line 124, output_file not writable
SentSaveFails ==
    /\ At("analyze_sentiment", "save")
    /\ Abort("OSError")

\* the next script is started once the previous one has ended
AiStart ==
    /\ stage = "analyze_sentiment"
    /\ pc \in {"done", "aborted"}
    /\ stage' = "run_ai_analysis_free"
    /\ pc' = "load"
    /\ df' = Table({}, <<>>)
    /\ raised' = NoError
    /\ written' = {}
    /\ ret' = Absent
    /\ UNCHANGED <<fs, sample_size>>

\* line 128
AiLoad ==
    /\ At("run_ai_analysis_free", "load")
    /\ fs[SentimentPath] # Absent
    /\ pc' = "topics"
    /\ df' = fs[SentimentPath]
    /\ UNCHANGED <<fs, stage, sample_size, raised, written, ret>>

\* line 128, the input file missing
AiLoadFails ==
    /\ At("run_ai_analysis_free", "load")
    /\ fs[SentimentPath] = Absent
    /\ Abort("FileNotFoundError")

\* lines 133-146
AiTopics ==
    /\ At("run_ai_analysis_free", "topics")
    /\ Len(NegativeRows(df.rows)) > 0
    /\ LET topics == extract_topics_rule_based(Table(df.columns, NegativeRows(df.rows)))
       IN  /\ topics.kind = "report"
           /\ Write(TopicsPath, topics)
    /\ pc' = "categorize"
    /\ UNCHANGED <<stage, df, sample_size, raised, ret>>

\* line 144, the topic report not writable
AiTopicsWriteFails ==
    /\ At("run_ai_analysis_free", "topics")
    /\ Len(NegativeRows(df.rows)) > 0
    /\ Abort("OSError")

\* lines 147-148
AiNoNegative ==
    /\ At("run_ai_analysis_free", "topics")
    /\ Len(NegativeRows(df.rows)) = 0
    /\ pc' = "categorize"
    /\ UNCHANGED <<fs, stage, df, sample_size, raised, written, ret>>

\* line 154
AiCategorize ==
    /\ At("run_ai_analysis_free", "categorize")
    /\ df' = Table(df.columns \cup {"ai_category"}, Categorize(df.rows))
    /\ pc' = "summary"
    /\ UNCHANGED <<fs, stage, sample_size, raised, written, ret>>

\* lines 165-174
AiSummary ==
    /\ At("run_ai_analysis_free", "summary")
    /\ LET summary == generate_executive_summary_template(df)
       IN  /\ summary.kind = "summary"
           /\ Write(SummaryPath, summary)
    /\ pc' = "save"
    /\ UNCHANGED <<stage, df, sample_size, raised, ret>>

\* line 173, the summary file not writable
AiSummaryWriteFails ==
    /\ At("run_ai_analysis_free", "summary")
    /\ Abort("OSError")

\* lines 178-181
AiSave ==
    /\ At("run_ai_analysis_free", "save")
    /\ Write(FinalPath, df)
    /\ pc' = "done"
    /\ ret' = df
    /\ UNCHANGED <<stage, df, sample_size, raised>>

\* line 178, output_file not writable
AiSaveFails ==
    /\ At("run_ai_analysis_free", "save")
    /\ Abort("OSError")

Next ==
    \/ SentLoad
    \/ SentLoadFails
    \/ SentScore
    \/ SentScoreFails
    \/ SentStats
    \/ SentStatsKeyError
    \/ SentStatsWriteFails
    \/ SentSave
    \/ SentSaveFails
    \/ AiStart
    \/ AiLoad
    \/ AiLoadFails
    \/ AiTopics
    \/ AiTopicsWriteFails
    \/ AiNoNegative
    \/ AiCategorize
    \/ AiSummary
    \/ AiSummaryWriteFails
    \/ AiSave
    \/ AiSaveFails

Spec == Init /\ [][Next]_vars

\* raw reviews of five topics, two of them on shipping, all but the last
\* scored Negative by InsightLexicon
InsightReviews ==
    { [Text |-> "Package arrived late and broken", Score |-> 1],
      [Text |-> "Delivery was two weeks late", Score |-> 2],
      [Text |-> "The price is too high", Score |-> 2],
      [Text |-> "Poor taste, stale and bland", Score |-> 1],
      [Text |-> "Tastes bitter and very bland", Score |-> 2],
      [Text |-> "Great coffee, will buy again", Score |-> 5] }

\* get_sentiment_scores (lines 14-31 of 02_sentiment_analysis.py) as a
\* function of the text: one of the dicts the analyzers may return
InsightLexicon(text) ==
    IF text = "great coffee, will buy again"
    THEN CHOOSE d \in ScoreDicts : d.vader_compound > 0
    ELSE CHOOSE d \in ScoreDicts : d.vader_compound < 0

\* analyze_sentiment's output for a cleaned file
Scored(t) ==
    Table(t.columns \cup ScoreColumns \cup {"sentiment_category"},
          ScoreRows(t.rows, [x \in TextsOf(t.rows) |-> InsightLexicon(x)]))

\* the sequences in which no review occurs twice
WithoutRepeats(seqs) == {s \in seqs : \A i, j \in 1..Len(s) : s[i] = s[j] => i = j}

\* the files analyze_sentiment can leave for run_ai_analysis_free: it ends
\* without one when the cleaned file has no records
ScoredFiles ==
    LET cleaned == {clean_reviews(Table(RawColumns, WithIds(s)), {}) :
                       s \in WithoutRepeats(SeqsUpTo(InsightReviews, MaxRecords + 1))}
    IN  {Scored(t) : t \in {c \in cleaned : c.rows # <<>>}}

InitInsights ==
    /\ \E t \in ScoredFiles \cup {Absent} :
           fs = [p \in StagePaths |-> IF p = SentimentPath THEN t ELSE Absent]
    /\ stage = "run_ai_analysis_free"
    /\ pc = "load"
    /\ df = Table({}, <<>>)
    /\ sample_size = {}
    /\ raised = NoError
    /\ written = {}
    /\ ret = Absent

NextInsights ==
    \/ AiLoad
    \/ AiLoadFails
    \/ AiTopics
    \/ AiTopicsWriteFails
    \/ AiNoNegative
    \/ AiCategorize
    \/ AiSummary
    \/ AiSummaryWriteFails
    \/ AiSave
    \/ AiSaveFails

SpecInsights == InitInsights /\ [][NextInsights]_vars

(***************************************************************************)
(* Properties of clean_reviews (SpecClean)                                 *)
(***************************************************************************)
NoUpper(t) == \A i \in 1..Len(t) : ~IsUpperChar(CharAt(t, i))

NoOuterSpace(t) == t = "" \/ (~IsSpace(CharAt(t, 1)) /\ ~IsSpace(CharAt(t, Len(t))))

Returned(f) == stage = f /\ pc = "done"

\* C1: no two records in the output of clean_reviews have the same cleaned
\* Text: the Text values of the surviving records are pairwise distinct.
C1_CleanedTextsDistinct ==
    Returned("clean_reviews") =>
        \A i, j \in 1..Len(ret.rows) : i # j => ret.rows[i].Text # ret.rows[j].Text

\* C2: every record in the output of clean_reviews has a Text longer than 20
\* characters, without leading or trailing whitespace and without an
\* uppercase character.
C2_CleanedTextShape ==
    Returned("clean_reviews") =>
        /\ fs[CleanPath] = ret
        /\ \A i \in 1..Len(ret.rows) :
               /\ Len(ret.rows[i].Text) > 20
               /\ NoOuterSpace(ret.rows[i].Text)
               /\ NoUpper(ret.rows[i].Text)

\* C2's case: a raw text with uppercase and outer whitespace survived,
\* changed, while another record of the input was dropped
C2_Witness ==
    /\ Returned("clean_reviews")
    /\ Len(ret.rows) < Len(fs[RawPath].rows)
    /\ \E i \in 1..Len(ret.rows) :
           LET raw == fs[RawPath].rows[ret.rows[i].Id].Text
           IN  ~NoUpper(raw) /\ ~NoOuterSpace(raw) /\ ret.rows[i].Text # raw

\* C9: when sample_size is given and smaller than the number of input
\* records, exactly sample_size records enter the cleaning steps; in every
\* other case all input records enter them.
C9_SampleSizeHonoured ==
    (stage = "clean_reviews" /\ pc = "dropna") =>
        IF sample_size # {} /\ (\A k \in sample_size : k < Len(fs[RawPath].rows))
        THEN \A k \in sample_size : Len(df.rows) = k
        ELSE df.rows = fs[RawPath].rows

\* the frame that enters line 40: the rows drawn, in the order of the draw,
\* that have a Text and a Score
Entering(t, ss) ==
    LET n == Len(t.rows)
        drawn == IF ss # {} /\ ss # {0} /\ (\A k \in ss : k < n)
                 THEN SubSeq(Perm42(n), 1, CHOOSE k \in ss : TRUE)
                 ELSE [i \in 1..n |-> i]
        complete == {i \in 1..Len(drawn) : {"Text", "Score"} \subseteq DOMAIN t.rows[drawn[i]]}
    IN  Keep([i \in 1..Len(drawn) |-> t.rows[drawn[i]]], complete, 1)

\* of every group of rows of entered with one Text, exactly one row is in
\* out
OneOfEachGroup(entered, out) ==
    /\ \A i \in 1..Len(out) : \E j \in 1..Len(entered) : out[i] = entered[j]
    /\ \A j \in 1..Len(entered) : \E i \in 1..Len(out) : out[i].Text = entered[j].Text
    /\ \A i, j \in 1..Len(out) : out[i].Text = out[j].Text => i = j

\* the row of out with a Text is the first row of entered with that Text
FirstInFrameOrder(entered, out) ==
    \A i \in 1..Len(out) :
        \E p \in 1..Len(entered) :
            /\ entered[p] = out[i]
            /\ \A q \in 1..(p - 1) : entered[q].Text # out[i].Text

\* the row of out with a Text is, of the rows of entered with that Text,
\* the one that comes first in the input file
FirstInInputOrder(entered, out) ==
    \A i \in 1..Len(out) :
        \A q \in 1..Len(entered) :
            entered[q].Text = out[i].Text => out[i].Id <= entered[q].Id

AfterDropDuplicates == stage = "clean_reviews" /\ pc = "lower"

Called(f) == stage = f /\ pc = "return"

\* C3: the sentiment_category of every scored record is Positive iff its
\* vader_compound is >= 0.05, Negative iff it is <= -0.05, and Neutral
\* otherwise: exactly one of the three.
C3_SentimentThresholds ==
    Called("categorize_sentiment") =>
        \A i \in 1..Len(ret.rows) :
            LET c == ret.rows[i].vader_compound
                label == ret.rows[i].sentiment_category
            IN  /\ label \in {"Positive", "Negative", "Neutral"}
                /\ label = "Positive" <=> c >= 500
                /\ label = "Negative" <=> c <= -500
                /\ label = "Neutral" <=> (-500 < c /\ c < 500)
                /\ ret.rows[i].vader_compound = df.rows[i].vader_compound

\* C3's case: records scored exactly 0.05 and exactly -0.05
C3_Witness ==
    /\ Called("categorize_sentiment")
    /\ ret.rows[1].vader_compound \in {500, -500}
    /\ ret.rows[1].sentiment_category # "Neutral"

TopicLabels ==
    {"Shipping/Delivery", "Customer Service", "Product Quality", "Taste/Flavor",
     "Price/Value", "Packaging", "Other"}

\* the categorizer's topics in their priority order, each with its keywords
Priority ==
    << [topic |-> "Shipping/Delivery", keywords |-> ShippingWords],
       [topic |-> "Customer Service", keywords |-> ServiceWords],
       [topic |-> "Product Quality", keywords |-> QualityWords],
       [topic |-> "Taste/Flavor", keywords |-> TasteWords],
       [topic |-> "Price/Value", keywords |-> PriceWords],
       [topic |-> "Packaging", keywords |-> PackagingWords] >>

\* the topics one of whose keywords the lowercased text contains
Matching(text_lower) ==
    {t \in 1..Len(Priority) :
        \E k \in 1..Len(Priority[t].keywords) : Contains(Priority[t].keywords[k], text_lower)}

\* label is the first of the matching topics, or Other when there is none
FirstOf(label, matching) ==
    IF matching = {}
    THEN label = "Other"
    ELSE \E t \in matching :
             /\ \A u \in matching : t <= u
             /\ label = Priority[t].topic

\* C4: categorize_review_rule_based returns one of the seven labels: the
\* first topic in priority order with a keyword contained in the text
\* (case-insensitively), or Other when no topic has one.
C4_FirstMatchingTopic ==
    Called("categorize_review_rule_based") =>
        /\ ret.label \in TopicLabels
        /\ FirstOf(ret.label, Matching(Lower(df)))

\* C4's case: a text with a shipping keyword after a quality keyword
C4_Witness ==
    /\ Called("categorize_review_rule_based")
    /\ df = "broken SHIPPING"
    /\ ret.label = "Shipping/Delivery"

\* the pairs <<topic, count>>: per report topic, the number of the given
\* lowercased texts that contain one of its keywords
CountMentions(lowered) ==
    {<<topic_keywords[t].topic,
       Cardinality({j \in 1..Len(lowered) :
           \E k \in 1..Len(topic_keywords[t].keywords) :
               Contains(topic_keywords[t].keywords[k], lowered[j])})>>
        : t \in 1..Len(topic_keywords)}

MentionCounts(rows) == CountMentions(LowerAll([j \in 1..Len(rows) |-> rows[j].Text]))

ReportAgrees(entries, mentions, total) ==
    /\ Len(entries) <= 5
    /\ \A i \in 1..Len(entries) :
           \E m \in mentions :
               LET diff == entries[i].prevalence * total - 1000 * m[2]
               IN  /\ m[1] = entries[i].topic
                   /\ m[2] >= 1
                   /\ 2 * diff <= total /\ -2 * diff <= total
    /\ \A i, j \in 1..Len(entries) :
           i < j => entries[i].prevalence >= entries[j].prevalence

\* C5: for a non-empty Negative subset the report has at most 5 entries,
\* lists only topics that some record mentions, in descending order of
\* prevalence, each with count/total*100 rounded to one decimal.
C5_TopicReport ==
    (Called("extract_topics_rule_based") /\ Len(df.rows) > 0) =>
        /\ ret.kind = "report"
        /\ ReportAgrees(ret.entries, MentionCounts(df.rows), Len(df.rows))

\* C5's case: all six topics are mentioned, with different prevalences, and
\* the report is cut to five entries
C5_Witness ==
    /\ Called("extract_topics_rule_based")
    /\ \A m \in MentionCounts(df.rows) : m[2] >= 1
    /\ Len(ret.entries) = 5
    /\ ret.entries[1].prevalence > ret.entries[5].prevalence
    /\ ret.entries[5].prevalence = 333

\* C6: generate_executive_summary_template on a dataset of zero records
\* raises an error and returns no summary.
C6_EmptyDatasetRejected ==
    (Called("generate_executive_summary_template") /\ Len(df.rows) = 0) =>
        ret.kind = "error"

\* C7: extract_topics_rule_based on an empty Negative subset returns an
\* empty report and raises no error.
C7_EmptySubsetEmptyReport ==
    (Called("extract_topics_rule_based") /\ Len(df.rows) = 0) =>
        /\ ret.kind = "report"
        /\ ret.entries = <<>>
        /\ raised = NoError

\* C7's case: the call on the empty subset has returned
C7_Witness ==
    /\ Called("extract_topics_rule_based")
    /\ df.rows = <<>>
    /\ ret.kind = "report"

\* every keyword the categorizer uses for a topic is a keyword the topic
\* report uses for the topic of the same name
KeywordsWithin(categorizer, report) ==
    \A t \in 1..Len(categorizer) :
        \E u \in 1..Len(report) :
            /\ report[u].topic = categorizer[t].topic
            /\ \A k \in 1..Len(categorizer[t].keywords) :
                   \E j \in 1..Len(report[u].keywords) :
                       report[u].keywords[j] = categorizer[t].keywords[k]

\* counts holds the per-topic counts of the report for one text: the text
\* is counted toward the topic named label
CountedToward(label, counts) ==
    \E u \in 1..Len(topic_keywords) :
        topic_keywords[u].topic = label /\ counts[u] = 1

\* C13: each keyword list of the categorizer is a subset of the report's
\* list for the same topic, so whenever categorize_review_rule_based
\* returns a topic other than Other for a text, extract_topics_rule_based
\* counts that text toward that topic.
C13_CategorizerWithinReport ==
    /\ KeywordsWithin(Priority, topic_keywords)
    /\ (Called("categorize_review_rule_based") /\ ret.label # "Other") =>
           CountedToward(ret.label, TopicCounts(<<df>>))

\* C13's case: a text with keywords of two topics gets the label of one of
\* them, and the report counts it toward both
C13_Witness ==
    /\ Called("categorize_review_rule_based")
    /\ df = "waste crushed"
    /\ ret.label = "Price/Value"
    /\ TopicCounts(<<df>>) = <<0, 0, 0, 1, 1, 0>>

(***************************************************************************)
(* Properties of the stages after the Cleaner (Spec)                       *)
(***************************************************************************)
\* C8: in a run of a stage that aborts with a fatal error, none of the
\* stage's output artifacts has been written during the run.
C8_AbortWritesNothing == pc = "aborted" => written = {}

\* the records of table in, in order, each column value kept, in table out
SameRecords(in, out) ==
    /\ out.kind = "table"
    /\ Len(out.rows) = Len(in.rows)
    /\ in.columns \subseteq out.columns
    /\ \A i \in 1..Len(in.rows) :
           \A c \in DOMAIN in.rows[i] :
               c \in DOMAIN out.rows[i] /\ out.rows[i][c] = in.rows[i][c]

\* C10: the outputs of analyze_sentiment and of run_ai_analysis_free hold
\* exactly their input's records, in the same order, every column value of
\* the input unchanged, and only new columns added.
C10_RecordsKept ==
    /\ Returned("analyze_sentiment") =>
           /\ fs[SentimentPath] = ret
           /\ SameRecords(fs[CleanPath], ret)
    /\ Returned("run_ai_analysis_free") =>
           /\ fs[FinalPath] = ret
           /\ SameRecords(fs[SentimentPath], ret)
           /\ SameRecords(fs[CleanPath], ret)

\* C10's case: both stages have run on several records, of which some but
\* not all are Negative, and each has added its columns
C10_Witness ==
    /\ Returned("run_ai_analysis_free")
    /\ Len(ret.rows) >= 2
    /\ Len(NegativeRows(ret.rows)) \in 1..(Len(ret.rows) - 1)
    /\ "sentiment_category" \in ret.columns \ fs[CleanPath].columns
    /\ "ai_category" \in ret.columns \ fs[SentimentPath].columns

(***************************************************************************)
(* Properties of run_ai_analysis_free (SpecInsights)                       *)
(***************************************************************************)
\* the number of Negative rows with ai_category c
NegativeCount(rows, c) ==
    Cardinality({i \in 1..Len(rows) :
        rows[i].sentiment_category = "Negative" /\ rows[i].ai_category = c})

\* issues is the fallback phrase iff no row is Negative; otherwise it lists
\* min(3, number of categories) different categories of the Negative rows,
\* none less frequent than an unlisted one, in descending order of
\* frequency, each with count / Negative rows * 100 rounded to an integer
IssuesAgree(issues, rows, total, cats) ==
    /\ issues.fallback <=> total = 0
    /\ total = 0 => issues.items = <<>>
    /\ total > 0 =>
           /\ Len(issues.items) <= 3
           /\ Len(issues.items) = (IF Cardinality(cats) < 3 THEN Cardinality(cats) ELSE 3)
           /\ \A i \in 1..Len(issues.items) :
                  LET diff == issues.items[i].pct * total
                                  - 100 * NegativeCount(rows, issues.items[i].cat)
                  IN  /\ issues.items[i].cat \in cats
                      /\ 2 * diff <= total /\ -2 * diff <= total
                      /\ \A c \in cats :
                             (\A j \in 1..Len(issues.items) : issues.items[j].cat # c) =>
                                 NegativeCount(rows, c)
                                     <= NegativeCount(rows, issues.items[i].cat)
           /\ \A i, j \in 1..Len(issues.items) :
                  i < j => /\ issues.items[i].cat # issues.items[j].cat
                           /\ NegativeCount(rows, issues.items[i].cat)
                                  >= NegativeCount(rows, issues.items[j].cat)

NegativeCategories(rows) ==
    {rows[i].ai_category : i \in {j \in 1..Len(rows) : rows[j].sentiment_category = "Negative"}}

SummaryWritten == stage = "run_ai_analysis_free" /\ SummaryPath \in written

\* C12: in every run of run_ai_analysis_free the summary is generated only
\* after every record has its ai_category, so the summary's issues text is
\* the fallback phrase iff the dataset has no Negative record; otherwise it
\* lists the at most 3 most frequent ai_category values among the Negative
\* records, each with its share of the Negative records.
C12_SummaryAfterCategories ==
    /\ (stage = "run_ai_analysis_free" /\ pc \in {"load", "topics", "categorize", "summary"}) =>
           SummaryPath \notin written
    /\ (stage = "run_ai_analysis_free" /\ (pc = "summary" \/ SummaryPath \in written)) =>
           /\ "ai_category" \in df.columns
           /\ \A i \in 1..Len(df.rows) : "ai_category" \in DOMAIN df.rows[i]
    /\ SummaryWritten =>
           /\ fs[SummaryPath].kind = "summary"
           /\ IssuesAgree(fs[SummaryPath].issues, df.rows,
                          Cardinality({i \in 1..Len(df.rows) :
                              df.rows[i].sentiment_category = "Negative"}),
                          NegativeCategories(df.rows))

\* C12's case: the Negative records have more than 3 categories and the
\* summary lists 3 of them
C12_Witness ==
    /\ SummaryWritten
    /\ Cardinality(NegativeCategories(df.rows)) > 3
    /\ ~fs[SummaryPath].issues.fallback
    /\ Len(fs[SummaryPath].issues.items) = 3

=============================================================================
